---- MODULE Spec2Model ----
(***************************************************************************)
(* couladj: the colour adjacencies of a raster image (src/main.rs).        *)
(*                                                                         *)
(* Spec      the run of main: the image is loaded, couladj_generic_rayon   *)
(*           aggregates the pixel pairs in parallel (rayon splits the      *)
(*           pixel indices, folds every piece into a HashSet and reduces   *)
(*           the sets), main closes the set under swap and prints a count  *)
(*           or a sorted table.                                            *)
(* SpecGrid  to_index and from_index applied one after the other.          *)
(* SpecClose the closing statement of main applied twice to any set.       *)
(***************************************************************************)
EXTENDS Integers, Sequences, FiniteSets, TLC

\* Bounds of the model.
MaxPixels == 4      \* an image has at most this many pixels
MaxWorkers == 3     \* pieces of the pixel range that exist at the same time

\* Rgba<u8>: the four channel bytes.
Red == <<255, 0, 0, 255>>
Blue == <<0, 0, 255, 255>>
ClearBlue == <<0, 0, 255, 0>>
\* The colours the images are painted with.
Colors == {Red, Blue, ClearBlue}

VARIABLES
    full_adjacencies,  \* args.full_adjacencies
    dimensions,        \* Vector {rows, columns} of the image
    buffer,            \* the pixels, row-major; buffer[i + 1] is index i
    pc,                \* where main is
    parts,             \* the pieces of the parallel iterator, left to right
    aggregated,        \* what couladj_generic_rayon returned
    result,            \* main's `result`
    output,            \* what main printed on stdout
    from_index_args,   \* history: the indices from_index was called with
    to_index_args,     \* history: the locations to_index was called with
    buffer_reads,      \* history: the indices of buffer[neighbor_index]
    grid               \* SpecGrid: the last conversion made

vars == <<full_adjacencies, dimensions, buffer, pc, parts, aggregated, result,
          output, from_index_args, to_index_args, buffer_reads, grid>>

(***************************************************************************)
(* gridly's Vector and Location, and the directions main uses.             *)
(***************************************************************************)
Vector(r, c) == [rows |-> r, columns |-> c]
Location(r, c) == [row |-> r, column |-> c]
Down == Vector(1, 0)
Right == Vector(0, 1)
Left == Vector(0, -1)
VectorAdd(a, b) == Vector(a.rows + b.rows, a.columns + b.columns)
LocationAdd(location, delta) ==
    Location(location.row + delta.rows, location.column + delta.columns)

\* `as usize` of an isize: a negative value wraps to the top of the word. The
\* word is shortened to 30 bits to stay inside TLC's integers; the wrapped
\* values stay far above every buffer length.
UsizeModulus == 2 ^ 30
AsUsize(x) == x % UsizeModulus

\* to_index with the row multiplied by the row count
to_index_by_rows(location, dims) ==
    ((AsUsize(location.row) * AsUsize(dims.rows)) + AsUsize(location.column))
        % UsizeModulus
to_index(location, dims) ==
    ((AsUsize(location.row) * AsUsize(dims.columns)) + AsUsize(location.column))
        % UsizeModulus

\* div_euclid / rem_euclid by the column count; a zero divisor panics.
DivideByZero == [panic |-> "attempt to divide by zero"]
from_index(index, dims) ==
    IF dims.columns = 0
    THEN DivideByZero
    ELSE Location(index \div dims.columns, index % dims.columns)

\* struct PixelPair and PixelPair::swap
PixelPair(origin, neighbor) == [origin |-> origin, neighbor |-> neighbor]
\* swap that exchanges nothing
swap_nothing(pair) == pair
swap(pair) == PixelPair(pair.neighbor, pair.origin)

\* struct Rectangle: GridBounds with root (0, 0) and the image's dimensions.
Rectangle(dims) == [root |-> Location(0, 0), dimensions |-> dims]
\* the bounds check with the column compared by <=
location_in_bounds_inclusive(rect, location) ==
    /\ rect.root.row <= location.row
    /\ location.row < rect.root.row + rect.dimensions.rows
    /\ rect.root.column <= location.column
    /\ location.column <= rect.root.column + rect.dimensions.columns
location_in_bounds(rect, location) ==
    /\ rect.root.row <= location.row
    /\ location.row < rect.root.row + rect.dimensions.rows
    /\ rect.root.column <= location.column
    /\ location.column < rect.root.column + rect.dimensions.columns

\* the full slice with Down + Right written twice and Down + Left missing
AdjacenciesNoDownLeft(full) ==
    IF full
    THEN <<Down, Right, VectorAdd(Down, Right), VectorAdd(Down, Right)>>
    ELSE <<Down, Right>>
\* The two offset slices main passes.
Adjacencies(full) ==
    IF full
    THEN <<Down, Right, VectorAdd(Down, Left), VectorAdd(Down, Right)>>
    ELSE <<Down, Right>>

(***************************************************************************)
(* The flat_map_iter closure of couladj_generic_rayon for one pixel.       *)
(***************************************************************************)
\* .map(|delta| location + delta).filter(location_in_bounds)
NeighborCoords(index, dims, adjacencies) ==
    IF from_index(index, dims) = DivideByZero
    THEN {}
    ELSE {LocationAdd(from_index(index, dims), adjacencies[k]) :
            k \in 1..Len(adjacencies)}
InBoundsNeighbors(index, dims, adjacencies) ==
    {n \in NeighborCoords(index, dims, adjacencies) :
        location_in_bounds(Rectangle(dims), n)}
\* .map(to_index)
NeighborIndices(index, dims, adjacencies) ==
    {to_index(n, dims) : n \in InBoundsNeighbors(index, dims, adjacencies)}
\* .filter(neighbor != pixel).map(PixelPair {origin: pixel, neighbor})
\* the filter that lets every neighbour through
KeepEveryNeighbor(neighbor, pixel) == TRUE
KeepNeighbor(neighbor, pixel) == neighbor /= pixel
PixelPairsAt(buf, index, dims, adjacencies) ==
    {PixelPair(buf[index + 1], buf[ni + 1]) :
        ni \in {n \in NeighborIndices(index, dims, adjacencies) :
                    n < Len(buf) /\ KeepNeighbor(buf[n + 1], buf[index + 1])}}

(***************************************************************************)
(* std's HashSet: the elements and the capacity. The capacity follows      *)
(* hashbrown's growth policy (0, 3, 7, 14, 28, ...).                        *)
(***************************************************************************)
RECURSIVE NextPowerOfTwo(_, _)
NextPowerOfTwo(n, p) == IF p >= n THEN p ELSE NextPowerOfTwo(n, 2 * p)
CapacityFor(n) ==
    IF n = 0 THEN 0
    ELSE IF n < 4 THEN 3
    ELSE IF n < 8 THEN 7
    ELSE (NextPowerOfTwo((n * 8) \div 7, 16) \div 8) * 7
Max(a, b) == IF a >= b THEN a ELSE b

HashSetNew == [items |-> {}, capacity |-> 0]
reserve(set, additional) ==
    IF additional > set.capacity - Cardinality(set.items)
    THEN [set EXCEPT !.capacity =
            CapacityFor(Max(Cardinality(set.items) + additional, set.capacity + 1))]
    ELSE set
insert(set, pair) ==
    IF pair \in set.items
    THEN set
    ELSE [reserve(set, 1) EXCEPT !.items = set.items \cup {pair}]
RECURSIVE InsertEach(_, _)
InsertEach(set, pairs) ==
    IF pairs = {}
    THEN set
    ELSE LET pair == CHOOSE p \in pairs : TRUE
         IN  InsertEach(insert(set, pair), pairs \ {pair})
extend(set, other) ==
    InsertEach(
        reserve(set, IF set.items = {}
                     THEN Cardinality(other.items)
                     ELSE (Cardinality(other.items) + 1) \div 2),
        other.items)

(***************************************************************************)
(* .fold(HashSet::new, insert) over one piece lo..hi-1 of the indices and  *)
(* the reduce operator.                                                    *)
(***************************************************************************)
RECURSIVE FoldPiece(_, _, _, _, _, _)
FoldPiece(set, buf, dims, adjacencies, lo, hi) ==
    IF lo >= hi
    THEN set
    ELSE FoldPiece(InsertEach(set, PixelPairsAt(buf, lo, dims, adjacencies)),
                   buf, dims, adjacencies, lo + 1, hi)

\* the reduce operator whose second arm forgets to extend
ReduceOpDropsSet1(set1, set2) ==
    IF set1.capacity > set2.capacity
    THEN extend(set1, set2)
    ELSE set2
ReduceOp(set1, set2) ==
    IF set1.capacity > set2.capacity
    THEN extend(set1, set2)
    ELSE extend(set2, set1)

\* couladj_generic_rayon run by one worker over the whole buffer.
couladj_generic_rayon(buf, dims, adjacencies) ==
    ReduceOp(HashSetNew, FoldPiece(HashSetNew, buf, dims, adjacencies, 0, Len(buf))).items

\* What a worker calls and reads while it goes over the indices idx.
ToIndexCalls(idx, dims, adjacencies) ==
    UNION {InBoundsNeighbors(k, dims, adjacencies) : k \in idx}
BufferReads(calls, dims) == {to_index(n, dims) : n \in calls}
\* from_index divides by zero, or buffer[neighbor_index] is past the end.
PiecePanics(buf, idx, dims, reads) ==
    \/ idx /= {} /\ dims.columns = 0
    \/ \E ni \in reads : ni >= Len(buf)

(***************************************************************************)
(* The closing statement of main.                                          *)
(***************************************************************************)
\* the statement without the extend, and with the set replaced by its swaps
SymmetryCloseSkipped(set) == set
SymmetryCloseSwapsOnly(set) == {swap(pair) : pair \in set}
SymmetryClose(set) == set \cup {swap(pair) : pair \in set}

(***************************************************************************)
(* impl Ord for PixelPair, the collect into a Vec, sort_unstable, println. *)
(***************************************************************************)
RECURSIVE ArrayCmp(_, _, _)
ArrayCmp(a, b, k) ==
    IF k > Len(a) THEN "Equal"
    ELSE IF a[k] < b[k] THEN "Less"
    ELSE IF a[k] > b[k] THEN "Greater"
    ELSE ArrayCmp(a, b, k + 1)
\* cmp without the then_with on the neighbor
cmp_origin_only(self, other) == ArrayCmp(self.origin, other.origin, 1)
cmp(self, other) ==
    IF ArrayCmp(self.origin, other.origin, 1) /= "Equal"
    THEN ArrayCmp(self.origin, other.origin, 1)
    ELSE ArrayCmp(self.neighbor, other.neighbor, 1)

\* The iteration orders of a HashSet tried: one enumeration of the set,
\* rotated by every amount, forwards and backwards.
RECURSIVE SetToSeq(_)
SetToSeq(set) ==
    IF set = {}
    THEN <<>>
    ELSE LET x == CHOOSE e \in set : TRUE IN <<x>> \o SetToSeq(set \ {x})
Rotate(seq, k) == [i \in 1..Len(seq) |-> seq[((i + k - 1) % Len(seq)) + 1]]
Reverse(seq) == [i \in 1..Len(seq) |-> seq[Len(seq) + 1 - i]]
IterationOrders(set) ==
    IF set = {}
    THEN {<<>>}
    ELSE {Rotate(SetToSeq(set), k) : k \in 0..(Cardinality(set) - 1)}
         \cup {Reverse(Rotate(SetToSeq(set), k)) : k \in 0..(Cardinality(set) - 1)}

\* sort_unstable (an insertion sort on slices this short)
RECURSIVE InsertSorted(_, _)
InsertSorted(sorted, x) ==
    IF sorted = <<>> THEN <<x>>
    ELSE IF cmp(x, Head(sorted)) = "Less" THEN <<x>> \o sorted
    ELSE <<Head(sorted)>> \o InsertSorted(Tail(sorted), x)
RECURSIVE sort_unstable(_)
sort_unstable(data) ==
    IF data = <<>>
    THEN <<>>
    ELSE InsertSorted(sort_unstable(SubSeq(data, 1, Len(data) - 1)), data[Len(data)])

Header == <<"r", "g", "b", "a", "adj_r", "adj_g", "adj_b", "adj_a">>
Row(pair) == pair.origin \o pair.neighbor
\* the count of unordered pairs
CountOutputHalved(set) == [mode |-> "count", count |-> Cardinality(set) \div 2]
CountOutput(set) == [mode |-> "count", count |-> Cardinality(set)]
TableOutput(data) ==
    [mode |-> "table", header |-> Header,
     rows |-> [i \in 1..Len(data) |-> Row(data[i])]]

(***************************************************************************)
(* Spec: one run of main.                                                  *)
(***************************************************************************)
Shapes ==
    {v \in [rows : 0..MaxPixels, columns : 0..MaxPixels] :
        v.rows * v.columns <= MaxPixels}
NoOutput == [mode |-> "none"]
NoGrid == [op |-> "none"]
\* A piece of the index range lo..hi-1: not yet visited, or folded into `set`;
\* `leaves` counts the folded pieces that were reduced into it.
Piece(lo, hi) ==
    [lo |-> lo, hi |-> hi, folded |-> FALSE, set |-> HashSetNew, leaves |-> 0]

Init ==
    /\ full_adjacencies \in BOOLEAN
    /\ dimensions \in Shapes
    /\ buffer \in [1..(dimensions.rows * dimensions.columns) -> Colors]
    /\ pc = "aggregate"
    /\ parts = <<Piece(0, Len(buffer))>>
    /\ aggregated = {}
    /\ result = {}
    /\ output = NoOutput
    /\ from_index_args = {}
    /\ to_index_args = {}
    /\ buffer_reads = {}
    /\ grid = NoGrid

Replace(seq, i, new) == SubSeq(seq, 1, i - 1) \o new \o SubSeq(seq, i + 1, Len(seq))

\* rayon splits a piece of the index range in two.
Split(i, mid) ==
    /\ pc = "aggregate"
    /\ Len(parts) < MaxWorkers
    /\ ~parts[i].folded
    /\ parts[i].lo < mid /\ mid < parts[i].hi
    /\ parts' = Replace(parts, i, <<Piece(parts[i].lo, mid), Piece(mid, parts[i].hi)>>)
    /\ UNCHANGED <<full_adjacencies, dimensions, buffer, pc, aggregated, result,
                   output, from_index_args, to_index_args, buffer_reads, grid>>

\* One worker runs map, flat_map_iter and fold over its piece; the piece's
\* set is then reduced into HashSet::new(), the identity of reduce.
Fold(i) ==
    LET p == parts[i]
        adj == Adjacencies(full_adjacencies)
        idx == p.lo..(p.hi - 1)
        calls == ToIndexCalls(idx, dimensions, adj)
        reads == BufferReads(calls, dimensions)
    IN  /\ pc = "aggregate"
        /\ ~p.folded
        /\ from_index_args' = from_index_args \cup idx
        /\ to_index_args' = to_index_args \cup calls
        /\ buffer_reads' = buffer_reads \cup reads
        /\ IF PiecePanics(buffer, idx, dimensions, reads)
           THEN /\ pc' = "panicked"
                /\ parts' = parts
           ELSE /\ pc' = pc
                /\ parts' = [parts EXCEPT ![i] =
                     [p EXCEPT !.folded = TRUE, !.leaves = 1,
                               !.set = ReduceOp(HashSetNew,
                                    FoldPiece(HashSetNew, buffer, dimensions, adj,
                                              p.lo, p.hi))]]
        /\ UNCHANGED <<full_adjacencies, dimensions, buffer, aggregated, result,
                       output, grid>>

\* Two neighbouring finished pieces are merged by the reduce operator.
Merged(i) ==
    SubSeq(parts, 1, i - 1) \o
    <<[lo |-> parts[i].lo, hi |-> parts[i + 1].hi, folded |-> TRUE,
       leaves |-> parts[i].leaves + parts[i + 1].leaves,
       set |-> ReduceOp(parts[i].set, parts[i + 1].set)]>>
    \o SubSeq(parts, i + 2, Len(parts))
Reduce(i) ==
    /\ pc = "aggregate"
    /\ i < Len(parts)
    /\ parts[i].folded /\ parts[i + 1].folded
    /\ \/ /\ parts[i].set.capacity > parts[i + 1].set.capacity    \* arm `true`
          /\ parts' = Merged(i)
       \/ /\ ~(parts[i].set.capacity > parts[i + 1].set.capacity) \* arm `false`
          /\ parts' = Merged(i)
    /\ UNCHANGED <<full_adjacencies, dimensions, buffer, pc, aggregated, result,
                   output, from_index_args, to_index_args, buffer_reads, grid>>

\* couladj_generic_rayon returns the one set left.
Return ==
    /\ pc = "aggregate"
    /\ Len(parts) = 1 /\ parts[1].folded
    /\ aggregated' = parts[1].set.items
    /\ result' = parts[1].set.items
    /\ pc' = "close"
    /\ UNCHANGED <<full_adjacencies, dimensions, buffer, parts, output,
                   from_index_args, to_index_args, buffer_reads, grid>>

\* result.extend(result.clone().iter().map(|pair| pair.swap()))
Close ==
    /\ pc = "close"
    /\ result' = SymmetryClose(result)
    /\ pc' = "output"
    /\ UNCHANGED <<full_adjacencies, dimensions, buffer, parts, aggregated, output,
                   from_index_args, to_index_args, buffer_reads, grid>>

\* if args.count { println!(count) } else { collect, sort_unstable, println! }
Output(count) ==
    /\ pc = "output"
    /\ \/ /\ count
          /\ output' = CountOutput(result)
       \/ /\ ~count
          /\ \E data \in IterationOrders(result) :
                output' = TableOutput(sort_unstable(data))
    /\ pc' = "done"
    /\ UNCHANGED <<full_adjacencies, dimensions, buffer, parts, aggregated, result,
                   from_index_args, to_index_args, buffer_reads, grid>>

Next ==
    \/ \E i \in 1..Len(parts) : \E mid \in 0..MaxPixels : Split(i, mid)
    \/ \E i \in 1..Len(parts) : Fold(i)
    \/ \E i \in 1..Len(parts) : Reduce(i)
    \/ Return
    \/ Close
    \/ \E count \in BOOLEAN : Output(count)

Spec == Init /\ [][Next]_vars

(***************************************************************************)
(* SpecGrid: to_index after from_index, and from_index after to_index.     *)
(***************************************************************************)
GridShapes == [rows : 0..MaxPixels, columns : 1..MaxPixels]

InitGrid ==
    /\ dimensions \in GridShapes
    /\ grid = NoGrid
    /\ full_adjacencies = FALSE
    /\ buffer = <<>>
    /\ pc = "grid"
    /\ parts = <<>>
    /\ aggregated = {}
    /\ result = {}
    /\ output = NoOutput
    /\ from_index_args = {}
    /\ to_index_args = {}
    /\ buffer_reads = {}

FromThenTo(index) ==
    /\ pc = "grid"
    /\ grid.op = "none"
    /\ grid' = [op |-> "from_to", index |-> index,
                location |-> from_index(index, dimensions),
                back |-> to_index(from_index(index, dimensions), dimensions)]
    /\ UNCHANGED <<full_adjacencies, dimensions, buffer, pc, parts, aggregated,
                   result, output, from_index_args, to_index_args, buffer_reads>>

ToThenFrom(location) ==
    /\ pc = "grid"
    /\ grid.op = "none"
    /\ location_in_bounds(Rectangle(dimensions), location)
    /\ grid' = [op |-> "to_from", location |-> location,
                index |-> to_index(location, dimensions),
                back |-> from_index(to_index(location, dimensions), dimensions)]
    /\ UNCHANGED <<full_adjacencies, dimensions, buffer, pc, parts, aggregated,
                   result, output, from_index_args, to_index_args, buffer_reads>>

NextGrid ==
    \/ \E index \in 0..(dimensions.rows * dimensions.columns - 1) : FromThenTo(index)
    \/ \E r \in 0..MaxPixels : \E c \in 0..MaxPixels : ToThenFrom(Location(r, c))

SpecGrid == InitGrid /\ [][NextGrid]_vars

(***************************************************************************)
(* SpecClose: the closing statement applied twice to any set of pairs.     *)
(***************************************************************************)
AllPairs == {PixelPair(a, b) : a \in Colors, b \in Colors}

InitClose ==
    /\ result \in SUBSET AllPairs
    /\ aggregated = {}
    /\ pc = "close_once"
    /\ full_adjacencies = FALSE
    /\ dimensions = Vector(0, 0)
    /\ buffer = <<>>
    /\ parts = <<>>
    /\ output = NoOutput
    /\ from_index_args = {}
    /\ to_index_args = {}
    /\ buffer_reads = {}
    /\ grid = NoGrid

\* `aggregated` keeps the set the first run started from.
CloseOnce ==
    /\ pc = "close_once"
    /\ aggregated' = result
    /\ result' = SymmetryClose(result)
    /\ pc' = "close_twice"
    /\ UNCHANGED <<full_adjacencies, dimensions, buffer, parts, output,
                   from_index_args, to_index_args, buffer_reads, grid>>

CloseTwice ==
    /\ pc = "close_twice"
    /\ result' = SymmetryClose(result)
    /\ pc' = "closed_twice"
    /\ UNCHANGED <<full_adjacencies, dimensions, buffer, parts, aggregated, output,
                   from_index_args, to_index_args, buffer_reads, grid>>

NextClose == CloseOnce \/ CloseTwice

SpecClose == InitClose /\ [][NextClose]_vars

(***************************************************************************)
(* The properties.                                                         *)
(***************************************************************************)
Returned == pc \in {"close", "output", "done"}
Closed == pc \in {"output", "done"}
Swapped(set) == {PixelPair(pair.neighbor, pair.origin) : pair \in set}

\* The image read by coordinates, and which pixels touch.
Cells == (0..(dimensions.rows - 1)) \X (0..(dimensions.columns - 1))
ColorAt(cell) == buffer[(cell[1] * dimensions.columns) + cell[2] + 1]
Abs(x) == IF x < 0 THEN -x ELSE x
Touching(p, q, full) ==
    LET dr == Abs(p[1] - q[1])
        dc == Abs(p[2] - q[2])
    IN  IF full THEN Max(dr, dc) = 1 ELSE dr + dc = 1
ColorAdjacency(full) ==
    {PixelPair(ColorAt(pq[1]), ColorAt(pq[2])) :
        pq \in {x \in Cells \X Cells :
                  Touching(x[1], x[2], full) /\ ColorAt(x[1]) /= ColorAt(x[2])}}

\* C1: after the closing statement the set is exactly the undirected colour
\* adjacency of the image: the ordered pairs of differing colours of two pixels
\* that touch, horizontally or vertically with the default offsets, in any of
\* the 8 directions with the full ones; nothing is missing, nothing is extra.
C1_ExactAdjacency == Closed => result = ColorAdjacency(full_adjacencies)
\* a finished run with the full offsets where two colours touch only diagonally
C1_Witness ==
    /\ pc = "done"
    /\ full_adjacencies
    /\ \E pair \in result : pair \notin ColorAdjacency(FALSE)

\* C2: however the indices are split into pieces and in whatever order and
\* shape the pieces' sets are reduced, every folded piece holds exactly the
\* pairs emitted for its pixels and the set returned is the union of the pairs
\* emitted for every pixel.
EmittedBy(lo, hi) ==
    UNION {PixelPairsAt(buffer, i, dimensions, Adjacencies(full_adjacencies)) :
            i \in lo..(hi - 1)}
C2_MergeIndependent ==
    /\ pc \in {"aggregate", "close", "output", "done"} =>
          \A i \in 1..Len(parts) :
              parts[i].folded => parts[i].set.items = EmittedBy(parts[i].lo, parts[i].hi)
    /\ Returned => aggregated = EmittedBy(0, Len(buffer))
\* the set returned was reduced from three pieces with pairs in it
C2_Witness ==
    /\ pc = "close"
    /\ parts[1].leaves >= 3
    /\ Cardinality(aggregated) >= 2

\* C3: after the closing statement the swap of every pair of the set is in the
\* set, and the set is the returned set united with the swaps of its pairs.
C3_SymmetricClosure ==
    Closed =>
        /\ \A pair \in result : PixelPair(pair.neighbor, pair.origin) \in result
        /\ result = aggregated \cup Swapped(aggregated)
\* the closing statement added a pair that aggregation had not found
C3_Witness == pc = "output" /\ \E pair \in result : pair \notin aggregated

\* C4: no pair with origin = neighbor is in a piece's set, in the returned
\* set or in the closed set.
NoSelfPair(set) == \A pair \in set : pair.origin /= pair.neighbor
C4_NoSelfPairs ==
    /\ \A i \in 1..Len(parts) : NoSelfPair(parts[i].set.items)
    /\ NoSelfPair(aggregated)
    /\ NoSelfPair(result)
\* a finished run on an image with two touching pixels of the same colour and
\* two touching pixels of different colours
C4_Witness ==
    /\ pc = "done"
    /\ result /= {}
    /\ \E p \in Cells, q \in Cells : Touching(p, q, FALSE) /\ ColorAt(p) = ColorAt(q)

\* C5: on a grid with at least one column, from_index of an index below
\* rows * columns is in bounds and to_index takes it back to the index, and
\* from_index takes to_index of an in-bounds location back to the location.
C5_IndexRoundTrip ==
    /\ grid.op = "from_to" =>
          /\ 0 <= grid.location.row /\ grid.location.row < dimensions.rows
          /\ 0 <= grid.location.column /\ grid.location.column < dimensions.columns
          /\ grid.back = grid.index
    /\ grid.op = "to_from" => grid.back = grid.location
\* an index past the first row and the first column was converted both ways
C5_Witness ==
    /\ grid.op = "from_to"
    /\ grid.location.row > 0
    /\ grid.location.column > 0
    /\ dimensions.rows /= dimensions.columns

\* C6: the table's rows are the pairs of the closed set, each once, in strictly
\* ascending order of their eight bytes (origin's R, G, B, A, then neighbor's),
\* whatever order the set was iterated in; the 1x2 image [Red, Blue] with the
\* default offsets prints the header, then 0 0 255 255 255 0 0 255, then
\* 255 0 0 255 0 0 255 255.
LexLess(a, b) ==
    \E k \in 1..Len(a) : a[k] < b[k] /\ \A j \in 1..(k - 1) : a[j] = b[j]
ScenarioA ==
    /\ dimensions = Vector(1, 2)
    /\ buffer = <<Red, Blue>>
    /\ ~full_adjacencies
C6_TableAscending ==
    (pc = "done" /\ output.mode = "table") =>
        /\ \A i \in 1..(Len(output.rows) - 1) : LexLess(output.rows[i], output.rows[i + 1])
        /\ {output.rows[i] : i \in 1..Len(output.rows)} =
              {pair.origin \o pair.neighbor : pair \in result}
        /\ ScenarioA =>
              /\ output.header =
                    <<"r", "g", "b", "a", "adj_r", "adj_g", "adj_b", "adj_a">>
              /\ output.rows = << <<0, 0, 255, 255, 255, 0, 0, 255>>,
                                  <<255, 0, 0, 255, 0, 0, 255, 255>> >>
\* the table of the 1x2 image [Red, Blue] was printed
C6_Witness == pc = "done" /\ output.mode = "table" /\ ScenarioA

\* C7: the number printed in count mode is the size of the closed set, and the
\* table has that many rows, no two of them the same.
C7_CountMatchesTable ==
    pc = "done" =>
        /\ output.mode = "count" => output.count = Cardinality(result)
        /\ output.mode = "table" =>
              /\ Len(output.rows) = Cardinality(result)
              /\ \A i, j \in 1..Len(output.rows) :
                    output.rows[i] = output.rows[j] => i = j
\* a count of at least four pairs was printed
C7_Witness == pc = "done" /\ output.mode = "count" /\ output.count >= 4

\* C8: running the closing statement on its own result changes nothing.
C8_CloseIdempotent == [][pc = "close_twice" => result' = result]_vars
\* the statement ran twice on a set that its first run had enlarged
C8_Witness == pc = "closed_twice" /\ \E pair \in result : pair \notin aggregated

\* C9: to_index is called only with in-bounds locations, every index the
\* buffer is read at is below rows * columns, nothing panics, an image with no
\* rows or no columns returns the empty set without a call of from_index, and
\* a 1x1 image returns the empty set.
C9_BoundsChecked ==
    /\ pc /= "panicked"
    /\ \A l \in to_index_args :
          /\ 0 <= l.row /\ l.row < dimensions.rows
          /\ 0 <= l.column /\ l.column < dimensions.columns
    /\ \A i \in buffer_reads : 0 <= i /\ i < dimensions.rows * dimensions.columns
    /\ (dimensions.rows = 0 \/ dimensions.columns = 0) =>
          /\ from_index_args = {}
          /\ Returned => aggregated = {} /\ result = {}
    /\ (dimensions = Vector(1, 1) /\ Returned) => aggregated = {} /\ result = {}
\* a finished run on a 2x2 image with the full offsets: every pixel but the
\* first was read as a neighbour, and some neighbours were out of bounds
C9_Witness ==
    /\ pc = "done"
    /\ dimensions = Vector(2, 2)
    /\ full_adjacencies
    /\ buffer_reads = {1, 2, 3}
    /\ Cardinality(to_index_args) = 3

\* C10: the closed set is the set couladj_generic_rayon returns when it is
\* given every direction (the 4 cardinal ones, or all 8) instead of the forward
\* ones, and closing that set adds nothing to it.
Up == Vector(-1, 0)
EveryDirection(full) ==
    IF full
    THEN <<Down, Right, Up, Left, VectorAdd(Down, Left), VectorAdd(Down, Right),
           VectorAdd(Up, Left), VectorAdd(Up, Right)>>
    ELSE <<Down, Right, Up, Left>>
C10_ForwardThenCloseIsSymmetric ==
    Closed =>
        LET every == couladj_generic_rayon(buffer, dimensions,
                                           EveryDirection(full_adjacencies))
        IN  /\ result = every
            /\ every \cup Swapped(every) = every
\* a finished run with the full offsets where the closing statement was needed
C10_Witness ==
    /\ pc = "done"
    /\ full_adjacencies
    /\ aggregated /= result
    /\ dimensions.rows >= 2 /\ dimensions.columns >= 2

====
